---- MODULE Spec2Model ----
(***************************************************************************)
(* KubeDebugSess: the DebugSession lifecycle controller (one reconciler    *)
(* per phase) and the attach proxy, modelled from the Go sources.          *)
(*                                                                         *)
(* One DebugSession (UID) targets one pod.  A reconcile is one atomic      *)
(* action (the dispatcher serialises reconciles per session key); every    *)
(* Status().Update and every pod update inside it may fail, which is an    *)
(* input of the action.  Strings that the code builds or takes apart       *)
(* (container names, the Authorization header) are sequences of pieces.    *)
(***************************************************************************)
EXTENDS Naturals, Integers, Sequences, FiniteSets, TLC

VARIABLES
    status,          \* persisted DebugSession.Status
    spec,            \* DebugSession.Spec (immutable after admission)
    pod,             \* the target pod as stored by the orchestrator
    cstate,          \* pod.Status.EphemeralContainerStatuses entry of debugger-<UID>
    nsExists,        \* the target namespace exists
    terminatingImpl, \* which of the two TerminatingReconciler sources is built
    origEphemeral,   \* pod.spec.ephemeralContainers before any injection
    result,          \* what the last reconcile returned (ctrl.Result, error)
    attach,          \* the proxy's answer to the last /attach request
    upgraded,        \* bearer tokens of requests the proxy has upgraded
    analysis,        \* the last stand-alone call of AnalyzeContainerStatus
    faults,          \* calls to the orchestrator (reads, updates, status writes) may fail
    conn,            \* one upgraded client connection of the attach proxy and its stream
    cache,           \* a copy of the session read earlier, from which a reconcile may still run
    fanout,          \* the sessions in the store and the requests queued for the last pod event
    peer             \* a second session that targets the same pod, and its reconcile in flight

vars == <<status, spec, pod, cstate, nsExists, terminatingImpl, origEphemeral,
          result, attach, upgraded, analysis, faults, conn, cache, fanout, peer>>

----------------------------------------------------------------------------
(* Bounds *)

MaxRetryCountBound == 3    \* spec.maxRetryCount is 0 or MaxRetryCountBound (3 is the default)
NumTokens == 2             \* generateSecureToken draws from 1..NumTokens
MaxEphemeral == 3          \* injection stops once the pod lists MaxEphemeral ephemeral containers
MaxRetryCountLarge == 70   \* spec.maxRetryCount of the sessions that retry past the width of a word
MaxByte == 2               \* the bytes of frames and chunks are 0..MaxByte
MaxPayload == 2            \* a frame's payload and a chunk of output have at most MaxPayload bytes

----------------------------------------------------------------------------
(* Types of api/v1alpha1 *)

Pending == "Pending"
Injecting == "Injecting"
Active == "Active"
Retrying == "Retrying"
Terminating == "Terminating"
Completed == "Completed"
Failed == "Failed"

SessionPhase == {"", Pending, Injecting, Active, Retrying, Terminating, Completed, Failed}

UID == "u1"                \* metadata.uid of the session
NoToken == 0               \* the empty string as status.oneTimeToken
Tokens == 1..NumTokens

\* fmt.Sprintf("debugger-%s", session.UID)
DebuggerName(uid) == <<"debugger-", uid>>

\* A status.message: the format string and the values substituted into it.
Msg(fmt) == [fmt |-> fmt, reason |-> "", n |-> 0, tok |-> NoToken]
MsgReason(fmt, reason) == [fmt |-> fmt, reason |-> reason, n |-> 0, tok |-> NoToken]

DebugSessionStatus ==
    [phase |-> "", message |-> Msg(""), debuggingContainerName |-> <<>>,
     readyForAttach |-> FALSE, oneTimeToken |-> NoToken, retryCount |-> 0,
     terminationTime |-> FALSE]

----------------------------------------------------------------------------
(* Reason classifier *)

ActionWait == "Wait"
ActionRetry == "Retry"
ActionFail == "Fail"
ActionSucceed == "Succeed"

waitingReasonMap ==
    [r \in {"ContainerCreating", "ImagePullBackOff", "RegistryUnavailable",
            "CrashLoopBackOff", "CreateContainerError", "RunContainerError",
            "NetworkPluginNotReady", "ErrImagePull", "InvalidImageName",
            "CreateContainerConfigError"} |->
       CASE r = "ContainerCreating" -> ActionWait
         [] r \in {"ErrImagePull", "InvalidImageName", "CreateContainerConfigError"} -> ActionFail
         [] OTHER -> ActionRetry]

terminatedReasonMap ==
    [r \in {"Completed", "Error", "OOMKilled", "ContainerCannotRun", "DeadlineExceeded"} |->
       IF r = "Completed" THEN ActionSucceed ELSE ActionFail]

\* A container status: kind is "absent" (no entry in the status list), "none"
\* (an entry with no state set), "Waiting", "Running" or "Terminated".
ContainerStatus(kind, reason) == [kind |-> kind, reason |-> reason]

\* a classifier that does what its message for unknown waiting reasons says
AnalyzeContainerStatus_UnknownRetries(cs) ==
    IF cs.kind = "Waiting" /\ cs.reason \notin DOMAIN waitingReasonMap
    THEN [action |-> ActionRetry,
          message |-> MsgReason("Unknown waiting reason '%s'. Attempting to retry.", cs.reason)]
    ELSE [action |-> IF cs.kind = "Running" THEN ActionWait
                     ELSE IF cs.kind = "Waiting" THEN waitingReasonMap[cs.reason]
                     ELSE IF cs.kind = "Terminated" /\ cs.reason \in DOMAIN terminatedReasonMap
                          THEN terminatedReasonMap[cs.reason]
                     ELSE IF cs.kind = "Terminated" THEN ActionFail ELSE ActionWait,
          message |-> Msg("")]

AnalyzeContainerStatus(cs) ==
    CASE cs.kind = "Running" ->
           [action |-> ActionWait, message |-> Msg("Session is running.")]
      [] cs.kind = "Waiting" ->
           IF cs.reason \notin DOMAIN waitingReasonMap
           THEN [action |-> ActionFail,
                 message |-> MsgReason("Unknown waiting reason '%s'. Attempting to retry.", cs.reason)]
           ELSE [action |-> waitingReasonMap[cs.reason],
                 message |-> MsgReason("Container is waiting. Reason: %s", cs.reason)]
      [] cs.kind = "Terminated" ->
           IF cs.reason \notin DOMAIN terminatedReasonMap
           THEN [action |-> ActionFail,
                 message |-> MsgReason("Container terminated with unknown reason '%s'.", cs.reason)]
           ELSE [action |-> terminatedReasonMap[cs.reason],
                 message |-> MsgReason("Container terminated. Reason: %s", cs.reason)]
      [] OTHER ->
           [action |-> ActionWait, message |-> Msg("Container status is not yet determined.")]

\* The observations the classifier is called with: every sub-state with
\* every reason of the two maps, the empty reason and reasons of neither map.
Reasons ==
    DOMAIN waitingReasonMap \cup DOMAIN terminatedReasonMap \cup {"", "PodInitializing", "Evicted"}

Observations == {ContainerStatus(k, r) : k \in {"none", "Running", "Waiting", "Terminated"}, r \in Reasons}

NoAnalysis == [called |-> FALSE, status |-> ContainerStatus("none", ""),
               action |-> ActionWait, message |-> Msg("")]

\* one call of the classifier, its argument and its two results kept
Analyze ==
    /\ \E cs \in Observations :
         LET a == AnalyzeContainerStatus(cs)
         IN  analysis' = [called |-> TRUE, status |-> cs, action |-> a.action, message |-> a.message]
    /\ UNCHANGED <<status, spec, pod, cstate, nsExists, terminatingImpl, origEphemeral, result, attach, upgraded, faults, conn, cache, fanout, peer>>

----------------------------------------------------------------------------
(* A reconcile works on a context: mem is the in-memory session status the *)
(* reconciler mutates, st the persisted status, p the stored pod.          *)

Ctx(st, p) == [mem |-> st, st |-> st, p |-> p]

\* r.Status().Update(ctx, session): on success the whole in-memory status is
\* persisted; on failure nothing is persisted and the in-memory changes stay.
StatusUpdate(c, ok) == IF ok THEN [c EXCEPT !.st = c.mem] ELSE c

UpdateSessionStatus(c, newPhase, message, ok) ==
    StatusUpdate([c EXCEPT !.mem.phase = newPhase, !.mem.message = message], ok)

\* ctrl.Result and error returned by a reconcile
Result(op, requeueAfter, err) == [op |-> op, requeueAfter |-> requeueAfter, err |-> err]

\* the return of UpdateSessionStatus: reconcile.Result{} and the update's error
Finish(op, c, ok) ==
    /\ status' = c.st
    /\ pod' = c.p
    /\ result' = Result(op, 0, ~ok)

\* the outcomes of a call to the orchestrator: TRUE is success
Oks == IF faults THEN BOOLEAN ELSE {TRUE}

Unchanged == UNCHANGED <<spec, cstate, nsExists, terminatingImpl, origEphemeral, attach, upgraded, analysis, faults, conn, cache, fanout, peer>>

----------------------------------------------------------------------------
(* Pending reconciler *)

findContainerInPod(p, containerName) ==
    \E i \in 1..Len(p.containers) : p.containers[i] = containerName

\* a validation that stops after the lookups of the namespace and the pod
validatePrerequisites_LookupsOnly(nsGetOk, podGetOk) ==
    IF nsGetOk /\ nsExists /\ podGetOk /\ pod.exists
    THEN [kind |-> "ok", message |-> Msg("")]
    ELSE [kind |-> "fail", message |-> Msg("target pod '%s' not found")]

\* The outcome of validatePrerequisites: nil ("ok"), a *RequeueError
\* ("requeue") or any other error ("fail") with its text.
validatePrerequisites(nsGetOk, podGetOk) ==
    LET targetContainerName ==
            IF spec.targetContainerName = "" /\ Len(pod.containers) > 0
            THEN pod.containers[1] ELSE spec.targetContainerName
    IN  CASE ~nsGetOk -> [kind |-> "fail", message |-> Msg("<namespace get error>")]
          [] ~nsExists -> [kind |-> "fail", message |-> Msg("target namespace '%s' not found")]
          [] ~podGetOk -> [kind |-> "fail", message |-> Msg("<pod get error>")]
          [] ~pod.exists -> [kind |-> "fail", message |-> Msg("target pod '%s' not found")]
          [] pod.phase \in {"Succeeded", "Failed"} ->
               [kind |-> "fail", message |-> MsgReason("target pod is not running (current phase: %s)", pod.phase)]
          [] pod.phase # "Running" ->
               [kind |-> "requeue", message |-> MsgReason("pod is not running yet (current phase: %s)", pod.phase)]
          [] spec.targetContainerName = "" /\ Len(pod.containers) = 0 ->
               [kind |-> "fail", message |-> Msg("cannot default container name, pod has no containers")]
          [] ~findContainerInPod(pod, targetContainerName) ->
               [kind |-> "fail", message |-> Msg("target container '%s' not found in pod")]
          [] OTHER -> [kind |-> "ok", message |-> Msg("")]

PendingReconcile ==
    /\ status.phase \in {"", Pending}
    /\ \E ok, nsGetOk, podGetOk \in Oks :
         LET c == Ctx(status, pod)
             v == validatePrerequisites(nsGetOk, podGetOk)
         IN  IF status.phase = ""
             THEN Finish("Pending", UpdateSessionStatus(c, Pending, Msg("DebugSession created."), ok), ok)
             ELSE CASE v.kind = "requeue" ->
                         /\ result' = Result("Pending", 30, FALSE)
                         /\ UNCHANGED <<status, pod>>
                    [] v.kind = "fail" ->
                         Finish("Pending", UpdateSessionStatus(c, Failed, v.message, ok), ok)
                    [] OTHER ->
                         Finish("Pending", UpdateSessionStatus(c, Injecting,
                                    Msg("Prerequisites validated successfully."), ok), ok)
    /\ Unchanged

----------------------------------------------------------------------------
(* Injecting reconciler *)

\* a check that does not look at shareProcessNamespace
checkInjectingCondition_ProxyOnly(p, proxyInfoOk) ==
    IF ~proxyInfoOk THEN "<proxy service info error>" ELSE "nil"

\* checkInjectingCondition: nil, or the error it returns
checkInjectingCondition(p, proxyInfoOk) ==
    IF ~p.shareProcessNamespace THEN "pod.Spec.ShareProcessNamespace is false"
    ELSE IF ~proxyInfoOk THEN "<proxy service info error>"
    ELSE "nil"

\* setUpDebugSess: a fresh token is put into the in-memory status and the
\* status is written; the error is that of the write.
setUpDebugSess(c, token, ok) ==
    StatusUpdate([c EXCEPT !.mem.oneTimeToken = token], ok)

\* the debugger container put in front of the containers already listed
injectAppend_Prepend(c, okPod) ==
    IF okPod
    THEN [c EXCEPT !.p.ephemeralContainers = <<DebuggerName(UID)>> \o c.p.ephemeralContainers]
    ELSE c

\* injectEphemeralContainer, first half: append the debugger container to
\* the pod read at the start of the reconcile and submit the pod.
injectAppend(c, okPod) ==
    IF okPod
    THEN [c EXCEPT !.p.ephemeralContainers = Append(c.p.ephemeralContainers, DebuggerName(UID))]
    ELSE c

\* a record of the name of the container that is debugged, not the debugger's
injectRecordName_Target(c, ok) ==
    StatusUpdate([c EXCEPT !.mem.debuggingContainerName = <<spec.targetContainerName>>], ok)

\* injectEphemeralContainer, second half: record the container name.
injectRecordName(c, ok) ==
    StatusUpdate([c EXCEPT !.mem.debuggingContainerName = DebuggerName(UID)], ok)

\* buildConnectionString: the instructions carry the token and the
\* container name of the in-memory session.
buildConnectionString(mem) ==
    [fmt |-> "Session is ready. Open TWO terminals and follow the steps: ...",
     reason |-> "", n |-> 0, tok |-> mem.oneTimeToken]

\* The body of Reconcile on the context c0; the context it ends with.
InjectingOutcome(c0, podGetOk, proxyInfoOk, okToken, okPod, okName, ok, token) ==
    LET cond == checkInjectingCondition(pod, proxyInfoOk)
        c1 == setUpDebugSess(c0, token, okToken)
        c2 == injectAppend(c1, okPod)
        c3 == injectRecordName(c2, okName)
    IN  CASE ~podGetOk \/ ~pod.exists ->
               UpdateSessionStatus(c0, Failed, Msg("Failed to find Target Pod"), ok)
          [] spec.targetContainerName = "" /\ Len(pod.containers) = 0 ->
               UpdateSessionStatus(c0, Failed, Msg("Failed to find Target Container"), ok)
          [] cond # "nil" ->
               UpdateSessionStatus(c0, Failed, MsgReason("Inject Failed: %v", cond), ok)
          [] ~okToken ->
               UpdateSessionStatus(c1, Failed, Msg("Setup Failed: %v"), ok)
          [] ~okPod ->
               UpdateSessionStatus(c2, Failed,
                   MsgReason("Inject Failed: %v", "failed to update ephemeral containers"), ok)
          [] ~okName ->
               UpdateSessionStatus(c3, Failed,
                   MsgReason("Inject Failed: %v", "failed to update session status with debugging container name"), ok)
          [] OTHER ->
               UpdateSessionStatus(c3, Active, buildConnectionString(c3.mem), ok)

InjectingReconcile ==
    /\ status.phase = Injecting
    /\ Len(pod.ephemeralContainers) < MaxEphemeral
    /\ \E podGetOk, proxyInfoOk, okToken, okPod, okName, ok \in Oks, token \in Tokens :
         Finish("Injecting",
                InjectingOutcome(Ctx(status, pod), podGetOk, proxyInfoOk, okToken, okPod, okName, ok, token),
                ok)
    /\ Unchanged

----------------------------------------------------------------------------
(* Active reconciler *)

\* a move to Retrying that leaves retryCount as it is
ActiveHandleRetry_KeepsCount(c, message, ok) == UpdateSessionStatus(c, Retrying, message, ok)

ActiveHandleRetry(c, message, ok) ==
    UpdateSessionStatus([c EXCEPT !.mem.retryCount = 1], Retrying, message, ok)

ActiveHandleFail(c, message, ok) == UpdateSessionStatus(c, Failed, message, ok)

ActiveHandleSucceed(c, message, ok) == UpdateSessionStatus(c, Terminating, message, ok)

\* The pod read failed with not-found.
ActivePodNotFound(c, ok) ==
    UpdateSessionStatus(c, Failed, Msg("Target pod not found."), ok)

\* marking the session ready and dropping its token in the same write
ActiveMarkReady_ClearsToken(c, ok) ==
    StatusUpdate([c EXCEPT !.mem.readyForAttach = TRUE, !.mem.oneTimeToken = NoToken], ok)

\* a write of the status that leaves readyForAttach as it was
ActiveMarkReady_NoFlag(c, ok) == StatusUpdate(c, ok)

\* The container is Running and the session is not yet ready for attach.
ActiveMarkReady(c, ok) == StatusUpdate([c EXCEPT !.mem.readyForAttach = TRUE], ok)

ActiveReconcile ==
    /\ status.phase = Active
    /\ \E podGetOk, ok \in Oks :
         LET c0 == Ctx(status, pod)
             c1 == [c0 EXCEPT !.mem.debuggingContainerName = DebuggerName(UID)]
             a == AnalyzeContainerStatus(cstate)
             c2 == [c1 EXCEPT !.mem.readyForAttach = FALSE]
         IN  CASE ~podGetOk ->
                    /\ result' = Result("Active", 0, TRUE)
                    /\ UNCHANGED <<status, pod>>
               [] ~pod.exists -> Finish("Active", ActivePodNotFound(c0, ok), ok)
               [] cstate.kind = "absent" ->
                    /\ result' = Result("Active", 5, FALSE)
                    /\ UNCHANGED <<status, pod>>
               [] cstate.kind = "Running" /\ ~status.readyForAttach ->
                    Finish("Active", ActiveMarkReady(c1, ok), ok)
               [] a.action = ActionRetry -> Finish("Active", ActiveHandleRetry(c2, a.message, ok), ok)
               [] a.action = ActionFail -> Finish("Active", ActiveHandleFail(c2, a.message, ok), ok)
               [] a.action = ActionSucceed -> Finish("Active", ActiveHandleSucceed(c2, a.message, ok), ok)
               [] OTHER ->
                    /\ result' = Result("Active", 0, FALSE)
                    /\ UNCHANGED <<status, pod>>
    /\ Unchanged

----------------------------------------------------------------------------
(* Retrying reconciler *)

RECURSIVE Pow2(_)
Pow2(k) == IF k = 0 THEN 1 ELSE 2 * Pow2(k - 1)

\* A time.Duration is an int64 count of nanoseconds.  Such a word is kept
\* as the set of the positions of its 1 bits, bit 63 being the sign.
BitsOf(n) == {i \in 0..30 : (n \div Pow2(i)) % 2 = 1}

\* w << k on 64 bits: bits shifted past bit 63 are lost
Shl(w, k) == {b + k : b \in w} \cap (0..63)

\* 1 << k in the type of the other operand (time.Duration)
OneShl(k) == Shl({0}, k)

\* time.Second * 5 = 5 000 000 000 = 9 765 625 * 2^9
FiveSeconds == Shl(BitsOf(9765625), 9)

\* time.Minute = 60 000 000 000 = 117 187 500 * 2^9
Minute == Shl(BitsOf(117187500), 9)

\* a * b on 64 bits where b is zero or a power of two
MulPow2(a, b) == IF b = {} THEN {} ELSE Shl(a, CHOOSE k \in b : TRUE)

Negative(w) == 63 \in w

\* a > b on int64: words of equal sign compare as unsigned words
Greater(a, b) ==
    IF Negative(a) # Negative(b) THEN Negative(b)
    ELSE /\ a # b
         /\ \E h \in a \ b : \A l \in b \ a : l < h

RECURSIVE Sum512(_)
Sum512(w) ==
    IF w = {} THEN 0
    ELSE LET b == CHOOSE x \in w : TRUE IN Pow2(b - 9) + Sum512(w \ {b})

\* A duration in whole seconds.  The words converted are multiples of 2^9
\* below 2^40, so the value is summed in units of 512ns; of a negative
\* duration only the sign is kept (-1).
Seconds(w) == IF Negative(w) THEN -1 ELSE Sum512(w) \div 1953125

\* waitDuration := time.Second * 5 * (1 << (retryCount - 1)), capped at
\* time.Minute when greater; in seconds
waitDuration(retryCount) ==
    LET w == MulPow2(FiveSeconds, OneShl(retryCount - 1))
    IN  Seconds(IF Greater(w, Minute) THEN Minute ELSE w)

\* a resolution that forgets to reset the retry counter
handleResolved_NoReset(c, ok) ==
    UpdateSessionStatus(c, Active, Msg("Session is now active."), ok)

\* a resolution that restarts the session instead of resuming it
\* a resolution written in two status writes, the count first
handleResolved_TwoWrites(c, ok) ==
    UpdateSessionStatus(StatusUpdate([c EXCEPT !.mem.retryCount = 0], TRUE),
                        Active, Msg("Session is now active."), ok)

handleResolved_ToPending(c, ok) ==
    UpdateSessionStatus([c EXCEPT !.mem.retryCount = 0], Pending, Msg("Session is now active."), ok)

handleResolved(c, ok) ==
    UpdateSessionStatus([c EXCEPT !.mem.retryCount = 0], Active, Msg("Session is now active."), ok)

RetryingHandleFail(c, message, ok) == UpdateSessionStatus(c, Failed, message, ok)

\* int32(session.Status.RetryCount) >= session.Spec.MaxRetryCount
maxRetriesReached(mem) == mem.retryCount >= spec.maxRetryCount

\* handleRetry below the cap: count the retry and rewrite the message
retryAgain(c, message, ok) ==
    LET n == c.mem.retryCount + 1
    IN  StatusUpdate([c EXCEPT !.mem.retryCount = n,
                               !.mem.message = [fmt |-> "Retrying... (%d/%d), Reason: %s",
                                                reason |-> message.reason, n |-> n, tok |-> NoToken]], ok)

RetryingHandleRetry(c, message, ok) ==
    IF maxRetriesReached(c.mem)
    THEN Finish("Retrying", UpdateSessionStatus(c, Failed, Msg("Failed after max retries."), ok), ok)
    ELSE LET c1 == retryAgain(c, message, ok)
         IN  /\ status' = c1.st
             /\ pod' = c1.p
             /\ result' = Result("Retrying", IF ok THEN waitDuration(c1.mem.retryCount) ELSE 0, ~ok)

RetryingReconcile ==
    /\ status.phase = Retrying
    /\ \E podGetOk, ok \in Oks :
         LET c0 == Ctx(status, pod)
             a == AnalyzeContainerStatus(cstate)
         IN  CASE ~podGetOk \/ ~pod.exists ->
                    Finish("Retrying", UpdateSessionStatus(c0, Failed, Msg("Target pod not found during retry."), ok), ok)
               [] cstate.kind = "absent" ->
                    Finish("Retrying", UpdateSessionStatus(c0, Failed,
                               Msg("Debugger container disappeared during retry."), ok), ok)
               [] a.action \in {ActionWait, ActionSucceed} -> Finish("Retrying", handleResolved(c0, ok), ok)
               [] a.action = ActionFail -> Finish("Retrying", RetryingHandleFail(c0, a.message, ok), ok)
               [] OTHER -> RetryingHandleRetry(c0, a.message, ok)
    /\ Unchanged

----------------------------------------------------------------------------
(* Terminating reconciler.  The repository carries two sources of it: one  *)
(* removes the debugger entry from the pod ("remove"), the other archives  *)
(* the container's logs and leaves the pod as it is ("archive").           *)

isEphemeralContainerPresent(p, containerName) ==
    \E i \in 1..Len(p.ephemeralContainers) : p.ephemeralContainers[i] = containerName

\* the index of the first entry named containerName, 0 if there is none
foundIndex(list, containerName) ==
    IF \E i \in 1..Len(list) : list[i] = containerName
    THEN CHOOSE i \in 1..Len(list) :
            /\ list[i] = containerName
            /\ \A j \in 1..(i - 1) : list[j] # containerName
    ELSE 0

\* append(list[:foundIndex], list[foundIndex+1:]...)
removeAt(list, i) == SubSeq(list, 1, i - 1) \o SubSeq(list, i + 1, Len(list))

\* cleanupEphemeralContainer of the removing source: the error ("nil" for
\* none) and the context after it
cleanupRemove(c, podGetOk, okPod) ==
    LET i == foundIndex(c.p.ephemeralContainers, DebuggerName(UID))
    IN  CASE ~podGetOk -> [err |-> "failed to get target pod for cleanup", c |-> c]
          [] ~c.p.exists -> [err |-> "target pod '%s' not found, the session has failed", c |-> c]
          [] i = 0 -> [err |-> "debugger container not found in pod during cleanup", c |-> c]
          [] ~okPod -> [err |-> "failed to update ephemeral containers to remove debugger", c |-> c]
          [] OTHER -> [err |-> "nil",
                       c |-> [c EXCEPT !.p.ephemeralContainers = removeAt(c.p.ephemeralContainers, i)]]

\* cleanupEphemeralContainer of the archiving source: logs are fetched and
\* uploaded, the status is written once (its error is only logged).
cleanupArchive(c, podGetOk, logsOk, uploadOk, okMid) ==
    CASE ~podGetOk -> [err |-> "failed to get target pod", c |-> c]
      [] ~c.p.exists -> [err |-> "target pod '%s' not found", c |-> c]
      [] ~isEphemeralContainerPresent(c.p, DebuggerName(UID)) ->
           [err |-> "debugger container not found in pod", c |-> c]
      [] ~logsOk -> [err |-> "failed to fetch ephemeral logs", c |-> c]
      [] ~uploadOk -> [err |-> "failed to upload logs to S3", c |-> c]
      [] OTHER -> [err |-> "nil", c |-> StatusUpdate(c, okMid)]

\* a cleanup that takes a pod that is gone as already cleaned
cleanupEphemeralContainer_MissingPodOk(c, podGetOk, okPod, logsOk, uploadOk, okMid) ==
    IF podGetOk /\ ~c.p.exists
    THEN [err |-> "nil", c |-> c]
    ELSE IF terminatingImpl = "remove"
         THEN cleanupRemove(c, podGetOk, okPod)
         ELSE cleanupArchive(c, podGetOk, logsOk, uploadOk, okMid)

cleanupEphemeralContainer(c, podGetOk, okPod, logsOk, uploadOk, okMid) ==
    IF terminatingImpl = "remove"
    THEN cleanupRemove(c, podGetOk, okPod)
    ELSE cleanupArchive(c, podGetOk, logsOk, uploadOk, okMid)

\* The body of Reconcile on the context c0; the context it ends with.
TerminatingOutcome(c0, podGetOk, okPod, logsOk, uploadOk, okMid, ok) ==
    LET r == cleanupEphemeralContainer(c0, podGetOk, okPod, logsOk, uploadOk, okMid)
    IN  IF r.err # "nil"
        THEN UpdateSessionStatus(r.c, Failed, MsgReason("%s", r.err), ok)
        ELSE UpdateSessionStatus([r.c EXCEPT !.mem.terminationTime = TRUE],
                                 Completed, Msg("Termination Completed"), ok)

TerminatingReconcile ==
    /\ status.phase = Terminating
    /\ \E podGetOk, okPod, logsOk, uploadOk, okMid, ok \in Oks :
         Finish("Terminating",
                TerminatingOutcome(Ctx(status, pod), podGetOk, okPod, logsOk, uploadOk, okMid, ok), ok)
    /\ Unchanged

----------------------------------------------------------------------------
(* Completed and Failed reconcilers *)

CompletedReconcile ==
    /\ status.phase = Completed
    /\ \E ok1, ok2 \in Oks :
         LET c1 == StatusUpdate([Ctx(status, pod) EXCEPT !.mem.message = Msg("Session Completed.")], ok1)
         IN  IF ~ok1
             THEN Finish("Completed", UpdateSessionStatus(c1, Failed, Msg("<status update error>"), ok2), ok2)
             ELSE Finish("Completed", c1, TRUE)
    /\ Unchanged

FailedReconcile ==
    /\ status.phase = Failed
    /\ result' = Result("Failed", 0, FALSE)
    /\ UNCHANGED <<status, pod>>
    /\ Unchanged

----------------------------------------------------------------------------
(* Dispatcher: DebugSessionReconciler.Reconcile reads the session and      *)
(* hands it to the reconciler registered for its phase.                    *)

\* a registry that lacks the entry of the empty phase
reconcilerRegistry_NoEmptyPhase ==
    [ph \in SessionPhase \ {""} |->
       IF ph = Pending THEN "PendingReconciler" ELSE ph \o "Reconciler"]

\* the registry filled by the Register calls of the init functions
reconcilerRegistry ==
    [ph \in SessionPhase |->
       IF ph \in {"", Pending} THEN "PendingReconciler" ELSE ph \o "Reconciler"]

\* the status of a session that was deleted: r.Get answers not-found
DeletedSession == [DebugSessionStatus EXCEPT !.phase = "<deleted>"]

\* a phase no reconciler is registered for
UnregisteredPhase == "Archived"

\* The answer of the dispatcher for the session in status: the reconciler
\* it calls ("" for none) and the requeue it asks for itself.
Dispatch(st) ==
    IF st = DeletedSession THEN [reconciler |-> "", requeueAfter |-> 0]
    ELSE IF st.phase \notin DOMAIN reconcilerRegistry THEN [reconciler |-> "", requeueAfter |-> 30]
    ELSE [reconciler |-> reconcilerRegistry[st.phase], requeueAfter |-> 0]

\* the user deletes the session
SessionDelete ==
    /\ status # DeletedSession
    /\ status' = DeletedSession
    /\ UNCHANGED <<pod, result>>
    /\ Unchanged

\* a client of the API writes a phase the controller does not know
PhaseEdit ==
    /\ status # DeletedSession /\ status.phase # UnregisteredPhase
    /\ status' = [status EXCEPT !.phase = UnregisteredPhase]
    /\ UNCHANGED <<pod, result>>
    /\ Unchanged

\* A request that the dispatcher answers itself: the session is gone or
\* its phase has no reconciler.
DispatchOnly ==
    /\ Dispatch(status).reconciler = ""
    /\ result' = Result("Dispatcher", Dispatch(status).requeueAfter, FALSE)
    /\ UNCHANGED <<status, pod>>
    /\ Unchanged

----------------------------------------------------------------------------
(* Reconciles that start from a copy of the session that is no longer the  *)
(* persisted one.  The datastore compares resource versions: every status  *)
(* write made from such a copy is answered with a conflict.  Reads and      *)
(* updates of the pod do not depend on the session's version.              *)

\* nothing was copied
NoCache == [DebugSessionStatus EXCEPT !.phase = "<none>"]

\* the session as the reconciler got it, the persisted status, the pod
StaleCtx == [mem |-> cache, st |-> status, p |-> pod]

\* A copy of the session is taken (the informer's cache, a queued
\* request); the phases followed are those whose reconcilers write more
\* than the status.
Snapshot ==
    /\ status.phase \in {Injecting, Terminating}
    /\ cache # status
    /\ cache' = status
    /\ UNCHANGED <<status, spec, pod, cstate, nsExists, terminatingImpl, origEphemeral, result,
                   attach, upgraded, analysis, faults, conn, fanout, peer>>

StaleInjectingReconcile ==
    /\ cache.phase = Injecting /\ cache # status
    /\ Len(pod.ephemeralContainers) < MaxEphemeral
    /\ \E podGetOk, proxyInfoOk, okPod \in Oks, token \in Tokens :
         Finish("Injecting",
                InjectingOutcome(StaleCtx, podGetOk, proxyInfoOk, FALSE, okPod, FALSE, FALSE, token),
                FALSE)
    /\ Unchanged

StaleTerminatingReconcile ==
    /\ cache.phase = Terminating /\ cache # status
    /\ \E podGetOk, okPod, logsOk, uploadOk \in Oks :
         Finish("Terminating",
                TerminatingOutcome(StaleCtx, podGetOk, okPod, logsOk, uploadOk, FALSE, FALSE), FALSE)
    /\ Unchanged

StaleReconcile == StaleInjectingReconcile \/ StaleTerminatingReconcile

----------------------------------------------------------------------------
(* The orchestrator: the kubelet reports the debugger container's state,   *)
(* the pod changes phase or is deleted.                                    *)

KubeletStates ==
    {ContainerStatus("Running", ""),
     ContainerStatus("Waiting", "ContainerCreating"),
     ContainerStatus("Waiting", "ImagePullBackOff"),
     ContainerStatus("Waiting", "InvalidImageName"),
     ContainerStatus("Terminated", "Completed")}

KubeletReport ==
    /\ pod.exists
    /\ isEphemeralContainerPresent(pod, DebuggerName(UID))
    /\ \E cs \in KubeletStates : cs # cstate /\ cstate' = cs
    /\ UNCHANGED <<status, spec, pod, nsExists, terminatingImpl, origEphemeral, result, attach, upgraded, analysis, faults, conn, cache, fanout, peer>>

\* Only the Pending reconciler reads the pod's phase, so its changes are
\* followed while the session is in "" or Pending.
PodPhaseChange ==
    /\ pod.exists
    /\ status.phase \in {"", Pending}
    /\ \/ pod.phase = "Pending" /\ pod' = [pod EXCEPT !.phase = "Running"]
       \/ pod.phase = "Running" /\ \E ph \in {"Succeeded", "Failed"} : pod' = [pod EXCEPT !.phase = ph]
    /\ UNCHANGED <<status, spec, cstate, nsExists, terminatingImpl, origEphemeral, result, attach, upgraded, analysis, faults, conn, cache, fanout, peer>>

PodDelete ==
    /\ pod.exists
    /\ pod' = [pod EXCEPT !.exists = FALSE, !.ephemeralContainers = <<>>]
    /\ cstate' = ContainerStatus("absent", "")
    /\ UNCHANGED <<status, spec, nsExists, terminatingImpl, origEphemeral, result, attach, upgraded, analysis, faults, conn, cache, fanout, peer>>

\* the target pod is scheduled and starts running
PodStarts == PodPhaseChange /\ pod'.phase = "Running"

\* the kubelet creates the debugger container and starts it
ContainerStarts ==
    /\ KubeletReport
    /\ cstate.kind \in {"absent", "Waiting"}
    /\ cstate' \in {ContainerStatus("Waiting", "ContainerCreating"), ContainerStatus("Running", "")}

\* the debugger's process ends with exit code 0
ContainerExits ==
    /\ KubeletReport
    /\ cstate.kind = "Running"
    /\ cstate' = ContainerStatus("Terminated", "Completed")

----------------------------------------------------------------------------
(* Attach proxy *)

\* strings.TrimPrefix on a string given as its pieces
TrimPrefix(s, prefix) == IF Len(s) >= 1 /\ s[1] = prefix THEN Tail(s) ELSE s

\* strings.EqualFold(s, "bearer")
EqualFoldBearer(s) == s \in {"bearer", "Bearer", "BEARER"}

\* The Authorization header as strings.Split(header, " ") returns it: a
\* missing header splits into one empty piece.
BearerHeaders ==
    {<<"Bearer", t>> : t \in 0..(NumTokens + 1)} \cup {<<"bearer", 1>>}

MalformedHeaders == {<<"">>, <<"Basic", 1>>, <<"Bearer", 1, "x">>}

Containers == {<<>>, DebuggerName(UID), <<UID>>, DebuggerName("u9")}

Request(path, ns, podName, container, auth) ==
    [path |-> path, ns |-> ns, pod |-> podName, container |-> container, auth |-> auth]

\* The requests tried: well-formed ones with every container value and
\* token, ones with a missing parameter, ones with a malformed header, and
\* ones to other paths than /attach (a probe, and an attach gone astray).
Requests ==
    {Request("/attach", "app", "web-1", c, a) : c \in Containers, a \in BearerHeaders}
      \cup {Request("/attach", q[1], q[2], DebuggerName(UID), a) :
        q \in {<<"", "web-1">>, <<"app", "">>}, a \in {<<"">>, <<"Bearer", 1>>, <<"Bearer", 2>>}}
      \cup {Request("/attach", "app", "web-1", c, a) :
        c \in {DebuggerName(UID), DebuggerName("u9")}, a \in MalformedHeaders}
      \cup {Request("/healthz", "", "", <<>>, <<"">>),
            Request("/", "app", "web-1", DebuggerName(UID), <<"Bearer", 1>>)}

\* a check of the parameters that also holds ns and pod against the target
missingParameters_TargetChecked(req) ==
    req.ns # "app" \/ req.pod # "web-1" \/ req.container = <<>>

\* ns == "" || podName == "" || containerName == ""
missingParameters(req) == req.ns = "" \/ req.pod = "" \/ req.container = <<>>

\* the session the proxy finds for sessionUID in the listed sessions
sessionFound(sessionUID) == sessionUID = <<UID>>

\* a lookup check that forgets to compare the token
authorized_ReadyOnly(st, receivedToken) == st.readyForAttach

\* the checks that follow the lookup of the session
authorized(st, receivedToken) == st.readyForAttach /\ st.oneTimeToken = receivedToken

\* The status code ServeHTTP answers with, "upgraded" when it upgrades.
Response(req, listOk) ==
    LET tokenParts == req.auth
        sessionUID == TrimPrefix(req.container, "debugger-")
    IN  CASE req.path # "/attach" -> "200"
          [] missingParameters(req) -> "400"
          [] Len(tokenParts) # 2 \/ ~EqualFoldBearer(tokenParts[1]) -> "401"
          [] ~listOk -> "500"
          [] ~sessionFound(sessionUID) -> "404"
          [] ~authorized(status, tokenParts[2]) -> "401"
          [] OTHER -> "upgraded"

ServeHTTP(req, listOk) ==
    LET code == Response(req, listOk)
    IN  /\ attach' = [code |-> code, path |-> req.path, ns |-> req.ns, pod |-> req.pod]
        /\ upgraded' = IF code = "upgraded" THEN upgraded \cup {req.auth[2]} ELSE upgraded
        /\ UNCHANGED <<status, spec, pod, cstate, nsExists, terminatingImpl, origEphemeral, result, analysis, faults, conn, cache, fanout, peer>>

\* http.Handle("/attach", proxyServer) on the default mux, served by
\* ListenAndServe(addr, nil): the pattern has no trailing slash, so it matches
\* the path /attach only and every other path gets the mux's 404.
DefaultServeMux(req, listOk) ==
    IF req.path = "/attach" THEN Response(req, listOk) ELSE "404"

\* a request the mux answers itself
NotFound(req) ==
    /\ attach' = [code |-> DefaultServeMux(req, FALSE), path |-> req.path, ns |-> req.ns, pod |-> req.pod]
    /\ UNCHANGED <<status, spec, pod, cstate, nsExists, terminatingImpl, origEphemeral, result,
                   upgraded, analysis, faults, conn, cache, fanout, peer>>

\* ServeHTTP lists the sessions once the parameters and the header passed
listCalled(req) ==
    ~missingParameters(req) /\ Len(req.auth) = 2 /\ EqualFoldBearer(req.auth[1])

Attach ==
    \E req \in Requests :
        \/ /\ req.path = "/attach"
           /\ \E listOk \in (IF listCalled(req) THEN BOOLEAN ELSE {TRUE}) : ServeHTTP(req, listOk)
        \/ req.path # "/attach" /\ NotFound(req)

----------------------------------------------------------------------------
(* Attach stream: Server.stream and the tasks it starts *)

Bytes == 0..MaxByte
RECURSIVE SeqsUpTo(_)
SeqsUpTo(k) ==
    IF k = 0 THEN {<<>>}
    ELSE SeqsUpTo(k - 1) \cup {Append(q, b) : q \in {x \in SeqsUpTo(k - 1) : Len(x) = k - 1}, b \in Bytes}

\* the payloads of the client's binary frames
Payloads == SeqsUpTo(MaxPayload)
\* what one Read of the attach stdout/stderr pipe returns (n > 0)
Chunks == SeqsUpTo(MaxPayload) \ {<<>>}

\* the sources of Server.stream
StreamImpls == {"main", "part_001"}

\* client -> stdin: the bytes handed to stdinWriter.Write for one frame
stdinWrite(impl, payload) ==
    IF impl = "part_001" THEN <<0>> \o payload ELSE payload

\* stdout -> client: the payload of the frame sent for one chunk
clientFrame(impl, chunk) ==
    IF impl = "part_001" THEN Tail(chunk) ELSE chunk

\* nothing was written or sent yet (no byte is negative)
None == <<-1>>

\* no connection has been upgraded
NoConn == [impl |-> "", streaming |-> FALSE, ended |-> FALSE, wsOpen |-> FALSE,
           payload |-> None, stdin |-> None, chunk |-> None, frame |-> None,
           reader |-> "none", pinger |-> "none", copier |-> "none",
           queue |-> [items |-> 0, closed |-> FALSE], next |-> "idle"]

\* Server.stream up to the call of executor.StreamWithContext: the tasks
\* are started and the initial size is queued.
OpenConn(impl) ==
    [NoConn EXCEPT !.impl = impl, !.streaming = TRUE, !.wsOpen = TRUE,
                   !.reader = "reading",
                   !.pinger = IF impl = "main" THEN "ticking" ELSE "none",
                   !.copier = IF impl = "part_001" THEN "reading" ELSE "none",
                   !.queue = [items |-> 1, closed |-> FALSE]]

UnchangedSession ==
    UNCHANGED <<status, spec, pod, cstate, nsExists, terminatingImpl, origEphemeral, result,
                attach, upgraded, analysis, faults, cache, fanout, peer>>

\* The client-read task takes a frame and writes it to the stdin pipe.  A
\* write to an io.Pipe returns when the other end has read the bytes.
ClientFrame ==
    /\ conn.reader = "reading" /\ conn.wsOpen
    /\ \E payload \in Payloads :
         conn' = [conn EXCEPT !.payload = payload,
                              !.stdin = stdinWrite(conn.impl, payload),
                              !.reader = "writing"]
    /\ UnchangedSession

\* The attach stream reads the stdin pipe and the pending write returns;
\* with the attach stream gone nobody reads and the task stays in the write.
StdinRead ==
    /\ conn.reader = "writing" /\ conn.streaming
    /\ conn' = [conn EXCEPT !.reader = "reading"]
    /\ UnchangedSession

\* The attach stream delivers a chunk of the container's output and the
\* frame for it is sent to the client.
StdoutChunk ==
    /\ conn.streaming /\ conn.wsOpen
    /\ \E chunk \in Chunks :
         conn' = [conn EXCEPT !.chunk = chunk, !.frame = clientFrame(conn.impl, chunk)]
    /\ UnchangedSession

\* terminalSizeQueue.Next, called by the attach stream's resize task
TerminalSizeNext ==
    /\ conn.impl # "" /\ conn.next # "blocked" /\ conn.next # "nil"
    /\ conn' = [conn EXCEPT !.next = IF conn.queue.items > 0 THEN "size"
                                     ELSE IF conn.queue.closed THEN "nil" ELSE "blocked",
                            !.queue.items = IF conn.queue.items > 0 THEN conn.queue.items - 1 ELSE 0]
    /\ UnchangedSession

\* executor.StreamWithContext returns (the attach stream closed, the client
\* went away or the context was cancelled), stream returns and its deferred
\* calls run: close(done) in main.go; ServeHTTP then closes the connection.
StreamEnds ==
    /\ conn.streaming
    /\ conn' = [conn EXCEPT !.streaming = FALSE, !.ended = TRUE, !.wsOpen = FALSE,
                            !.pinger = IF conn.pinger = "ticking" THEN "stopping" ELSE conn.pinger]
    /\ UnchangedSession

\* ws.ReadMessage fails on the closed connection and the client-read task
\* returns, closing the write end of the stdin pipe.
ReaderExits ==
    /\ conn.reader = "reading" /\ ~conn.wsOpen
    /\ conn' = [conn EXCEPT !.reader = "done"]
    /\ UnchangedSession

\* the keepalive task takes the closed done channel and returns
PingerExits ==
    /\ conn.pinger = "stopping"
    /\ conn' = [conn EXCEPT !.pinger = "done"]
    /\ UnchangedSession

----------------------------------------------------------------------------
(* Pod events: the field index targetPodIndexKey and findSessionsForPod   *)

\* the sessions a store may hold; names of sessions and pods are free text
\* in the spec of a session, while a pod's own namespace and name carry no "/"
SessionNamespaces == {"a", "b"}
TargetNamespaceValues == {"", "a", "a/b"}
TargetPodNameValues == {"p", "b/p"}
PodNamespaces == {"a", "b"}
PodNames == {"p", "q"}

SessionRecord(name, namespace, targetNamespace, targetPodName) ==
    [name |-> name, namespace |-> namespace,
     targetNamespace |-> targetNamespace, targetPodName |-> targetPodName]

\* an index that ignores the default of the target namespace
targetPodIndex_NoDefault(session) ==
    session.targetNamespace \o "/" \o session.targetPodName

\* the index function registered by SetupWithManager
targetPodIndex(session) ==
    LET targetNamespace == IF session.targetNamespace = "" THEN session.namespace
                           ELSE session.targetNamespace
    IN  targetNamespace \o "/" \o session.targetPodName

\* findSessionsForPod: the requests for one pod event
findSessionsForPod(sessions, podNamespace, podName, listOk) ==
    LET podKey == podNamespace \o "/" \o podName
    IN  IF ~listOk THEN {}
        ELSE {[name |-> item.name, namespace |-> item.namespace] :
                 item \in {x \in sessions : targetPodIndex(x) = podKey}}

NoFanout == [sessions |-> {}, called |-> FALSE, listed |-> FALSE,
             podNamespace |-> "", podName |-> "", requests |-> {}]

\* one pod event is mapped to requests
PodEvent ==
    /\ \E podNamespace \in PodNamespaces, podName \in PodNames, listOk \in Oks :
         fanout' = [fanout EXCEPT !.called = TRUE, !.listed = listOk,
                                  !.podNamespace = podNamespace,
                                  !.podName = podName,
                                  !.requests = findSessionsForPod(fanout.sessions, podNamespace,
                                                                  podName, listOk)]
    /\ UNCHANGED <<status, spec, pod, cstate, nsExists, terminatingImpl, origEphemeral, result,
                   attach, upgraded, analysis, faults, conn, cache, peer>>

----------------------------------------------------------------------------
(* A second session on the same pod.  Its Injecting and Terminating        *)
(* reconciles are followed step by step: the pod is read, the list is      *)
(* changed in the copy, the copy is submitted.  The orchestrator compares  *)
(* the resource version of a submitted pod with the stored one; the        *)
(* version changes whenever the list does.                                 *)

PeerUID == "u2"

NoPeer == [phase |-> "", step |-> "none", copy |-> <<>>]

\* r.Get of the target pod at the start of the peer's reconcile
PeerReadPod ==
    /\ peer.phase \in {Injecting, Terminating} /\ peer.step = "idle"
    /\ pod.exists
    /\ peer.phase = Injecting => Len(pod.ephemeralContainers) < MaxEphemeral
    /\ peer' = [peer EXCEPT !.step = "read", !.copy = pod.ephemeralContainers]
    /\ UNCHANGED <<status, spec, pod, cstate, nsExists, terminatingImpl, origEphemeral, result,
                   attach, upgraded, analysis, faults, conn, cache, fanout>>

\* the list the peer submits: its entry appended, or its entry removed
peerList(phase, list) ==
    IF phase = Injecting THEN Append(list, DebuggerName(PeerUID))
    ELSE removeAt(list, foundIndex(list, DebuggerName(PeerUID)))

\* UpdateEphemeralContainers with the copy; a lost update makes the
\* reconcile end in UpdateSessionStatus(Failed, ...).
PeerUpdatePod ==
    /\ peer.step = "read"
    /\ pod.exists
    /\ IF peer.copy = pod.ephemeralContainers
       THEN /\ pod' = [pod EXCEPT !.ephemeralContainers = peerList(peer.phase, peer.copy)]
            /\ peer' = [peer EXCEPT !.step = "idle", !.copy = <<>>,
                                    !.phase = IF peer.phase = Injecting THEN Terminating ELSE Completed]
       ELSE /\ pod' = pod
            /\ peer' = [peer EXCEPT !.step = "idle", !.copy = <<>>, !.phase = Failed]
    /\ UNCHANGED <<status, spec, cstate, nsExists, terminatingImpl, origEphemeral, result,
                   attach, upgraded, analysis, faults, conn, cache, fanout>>

----------------------------------------------------------------------------
(* Specification *)

\* the pod already carries an ephemeral container of somebody else
InitEphemeral == {<<<<"sidecar-debug">>>>}

InitState ==
    /\ status = DebugSessionStatus
    /\ spec \in [maxRetryCount : {0, MaxRetryCountBound},
                 targetContainerName : {"", "missing"}]
    /\ nsExists \in BOOLEAN
    /\ origEphemeral \in InitEphemeral
    /\ pod \in [exists : BOOLEAN, phase : {"Pending", "Running", "Succeeded"},
                shareProcessNamespace : BOOLEAN, containers : {<<>>, <<"app">>},
                ephemeralContainers : {origEphemeral}]
    /\ pod.exists \/ pod = [exists |-> FALSE, phase |-> "Pending", shareProcessNamespace |-> FALSE,
                            containers |-> <<>>, ephemeralContainers |-> origEphemeral]
    /\ cstate = ContainerStatus("absent", "")
    /\ terminatingImpl \in {"remove", "archive"}
    /\ result = Result("", 0, FALSE)
    /\ attach = [code |-> "", path |-> "", ns |-> "", pod |-> ""]
    /\ upgraded = {}
    /\ analysis = NoAnalysis

Init == InitState /\ faults = TRUE /\ conn = NoConn /\ cache = NoCache /\ fanout = NoFanout /\ peer = NoPeer

\* the same sessions on an orchestrator whose calls all succeed
InitReliable == InitState /\ faults = FALSE /\ conn = NoConn /\ cache = NoCache /\ fanout = NoFanout /\ peer = NoPeer

Next ==
    \/ PendingReconcile
    \/ InjectingReconcile
    \/ ActiveReconcile
    \/ RetryingReconcile
    \/ TerminatingReconcile
    \/ CompletedReconcile
    \/ FailedReconcile
    \/ KubeletReport
    \/ PodPhaseChange
    \/ PodDelete

\* the controller and the orchestrator
Spec == Init /\ [][Next]_vars

NextProxy ==
    \/ Next
    \/ Attach

\* the controller, the orchestrator and the attach proxy
SpecProxy == Init /\ [][NextProxy]_vars

\* namespaces and pod names a client may name in an /attach request
NsValues == {"app", "other"}
PodValues == {"web-1", "web-2"}

\* /attach requests for the session's debugger container that name the
\* target namespace and pod, or others
TargetRequests ==
    {Request("/attach", ns, p, DebuggerName(UID), <<"Bearer", t>>) :
        ns \in NsValues, p \in PodValues, t \in 1..NumTokens}

AttachTarget == \E req \in TargetRequests, listOk \in BOOLEAN : ServeHTTP(req, listOk)

NextTarget ==
    \/ Next
    \/ AttachTarget

\* the controller with every call succeeding, the orchestrator, and clients
\* that name any namespace and pod
SpecTarget == InitReliable /\ [][NextTarget]_vars

NextLive ==
    \/ PendingReconcile
    \/ InjectingReconcile
    \/ ActiveReconcile
    \/ TerminatingReconcile
    \/ CompletedReconcile
    \/ FailedReconcile
    \/ PodStarts
    \/ ContainerStarts
    \/ ContainerExits

\* Every status write and every change of the target pod is a watch event
\* that queues the session again, and a reconcile that waits asks for a
\* requeue: a reconciler whose phase the session is in is eventually run.
\* The kubelet eventually starts a container that was added to the pod.
Fairness ==
    /\ WF_vars(PendingReconcile)
    /\ WF_vars(InjectingReconcile)
    /\ WF_vars(ActiveReconcile)
    /\ WF_vars(TerminatingReconcile)
    /\ WF_vars(CompletedReconcile)
    /\ WF_vars(ContainerStarts)

\* the controller on an orchestrator whose calls succeed and whose pods and
\* containers start, run and may exit normally
SpecLive == InitReliable /\ [][NextLive]_vars /\ Fairness

NextStale ==
    \/ Next
    \/ Snapshot
    \/ StaleInjectingReconcile
    \/ StaleTerminatingReconcile

\* the controller reconciling from current and from outdated copies
SpecStale == Init /\ [][NextStale]_vars

NextDispatch ==
    \/ Next
    \/ SessionDelete
    \/ PhaseEdit
    \/ DispatchOnly

\* the controller with sessions that are deleted or carry a foreign phase
SpecDispatch == Init /\ [][NextDispatch]_vars

\* a store of two sessions, before any pod event
InitFanout ==
    /\ InitState
    /\ nsExists /\ pod.exists /\ pod.phase = "Running" /\ pod.shareProcessNamespace
    /\ pod.containers = <<"app">>
    /\ spec = [maxRetryCount |-> 0, targetContainerName |-> ""]
    /\ terminatingImpl = "remove"
    /\ faults = TRUE
    /\ conn = NoConn
    /\ cache = NoCache
    /\ peer = NoPeer
    /\ \E ns1, ns2 \in SessionNamespaces, tn1, tn2 \in TargetNamespaceValues,
          tp1, tp2 \in TargetPodNameValues :
         fanout = [NoFanout EXCEPT !.sessions = {SessionRecord("s1", ns1, tn1, tp1),
                                                 SessionRecord("s2", ns2, tn2, tp2)}]

\* pod events mapped to requests
SpecFanout == InitFanout /\ [][PodEvent]_vars

\* the session and a peer that is about to inject into the same pod
InitPeers ==
    /\ InitState
    /\ faults = FALSE
    /\ conn = NoConn
    /\ cache = NoCache
    /\ fanout = NoFanout
    /\ peer = [NoPeer EXCEPT !.phase = Injecting, !.step = "idle"]

NextPeers ==
    \/ Next
    \/ PeerReadPod
    \/ PeerUpdatePod

\* two sessions on one pod, their reconciles interleaving
SpecPeers == InitPeers /\ [][NextPeers]_vars

\* a connection that ServeHTTP has upgraded, under either source of stream
InitStream ==
    /\ InitState
    /\ nsExists /\ pod.exists /\ pod.phase = "Running" /\ pod.shareProcessNamespace
    /\ pod.containers = <<"app">>
    /\ spec = [maxRetryCount |-> 0, targetContainerName |-> ""]
    /\ terminatingImpl = "remove"
    /\ faults = FALSE
    /\ \E impl \in StreamImpls : conn = OpenConn(impl)
    /\ cache = NoCache
    /\ fanout = NoFanout
    /\ peer = NoPeer

NextStream ==
    \/ ClientFrame
    \/ StdinRead
    \/ StdoutChunk
    \/ TerminalSizeNext
    \/ StreamEnds
    \/ ReaderExits
    \/ PingerExits

\* the goroutines run whenever they can take a step
SpecStream ==
    /\ InitStream /\ [][NextStream]_vars
    /\ WF_vars(ReaderExits) /\ WF_vars(PingerExits)

\* A session in the middle of a long Retrying streak: maxRetryCount is
\* large, retryCount retries have been counted and the debugger container is
\* still in a Retry-classified state.
InitBackoff ==
    /\ spec = [maxRetryCount |-> MaxRetryCountLarge, targetContainerName |-> ""]
    /\ \E r \in 1..MaxRetryCountLarge, t \in Tokens :
         status = [phase |-> Retrying,
                   message |-> IF r = 1
                               THEN MsgReason("Container is waiting. Reason: %s", "ImagePullBackOff")
                               ELSE [fmt |-> "Retrying... (%d/%d), Reason: %s",
                                     reason |-> "ImagePullBackOff", n |-> r, tok |-> NoToken],
                   debuggingContainerName |-> DebuggerName(UID),
                   readyForAttach |-> FALSE, oneTimeToken |-> t, retryCount |-> r,
                   terminationTime |-> FALSE]
    /\ nsExists = TRUE
    /\ origEphemeral \in InitEphemeral
    /\ pod = [exists |-> TRUE, phase |-> "Running", shareProcessNamespace |-> TRUE,
              containers |-> <<"app">>,
              ephemeralContainers |-> Append(origEphemeral, DebuggerName(UID))]
    /\ cstate = ContainerStatus("Waiting", "ImagePullBackOff")
    /\ terminatingImpl \in {"remove", "archive"}
    /\ result = Result("", 0, FALSE)
    /\ attach = [code |-> "", path |-> "", ns |-> "", pod |-> ""]
    /\ upgraded = {}
    /\ analysis = NoAnalysis
    /\ faults = TRUE
    /\ conn = NoConn
    /\ cache = NoCache
    /\ fanout = NoFanout
    /\ peer = NoPeer

\* the Retrying reconciler run on such sessions
SpecBackoff == InitBackoff /\ [][RetryingReconcile]_vars

\* A session in Retrying whose pod is there or gone and whose debugger
\* container is in any sub-state with any reason, or has no status entry.
InitRetrying ==
    /\ spec \in [maxRetryCount : {0, MaxRetryCountBound}, targetContainerName : {""}]
    /\ \E r \in 1..MaxRetryCountBound, t \in Tokens :
         status = [phase |-> Retrying,
                   message |-> MsgReason("Container is waiting. Reason: %s", "ImagePullBackOff"),
                   debuggingContainerName |-> DebuggerName(UID),
                   readyForAttach |-> FALSE, oneTimeToken |-> t, retryCount |-> r,
                   terminationTime |-> FALSE]
    /\ nsExists = TRUE
    /\ origEphemeral \in InitEphemeral
    /\ \E e \in BOOLEAN :
         pod = [exists |-> e, phase |-> "Running", shareProcessNamespace |-> TRUE,
                containers |-> <<"app">>,
                ephemeralContainers |-> IF e THEN Append(origEphemeral, DebuggerName(UID)) ELSE <<>>]
    /\ cstate \in Observations \cup {ContainerStatus("absent", "")}
    /\ pod.exists \/ cstate = ContainerStatus("absent", "")
    /\ terminatingImpl \in {"remove", "archive"}
    /\ result = Result("", 0, FALSE)
    /\ attach = [code |-> "", path |-> "", ns |-> "", pod |-> ""]
    /\ upgraded = {}
    /\ analysis = NoAnalysis
    /\ faults = TRUE
    /\ conn = NoConn
    /\ cache = NoCache
    /\ fanout = NoFanout
    /\ peer = NoPeer

\* the Retrying reconciler run on every such observation
SpecRetrying == InitRetrying /\ [][RetryingReconcile]_vars

\* the classifier called on its own, with every observation
SpecClassifier == Init /\ [][Analyze]_vars

----------------------------------------------------------------------------
(* Properties *)

DeclaredEdges ==
    {<<"", Pending>>, <<Pending, Injecting>>, <<Pending, Failed>>,
     <<Injecting, Active>>, <<Injecting, Failed>>,
     <<Active, Retrying>>, <<Active, Terminating>>, <<Active, Failed>>,
     <<Retrying, Active>>, <<Retrying, Retrying>>, <<Retrying, Failed>>,
     <<Terminating, Completed>>, <<Terminating, Failed>>}

\* C1: every change of the persisted status.phase is one of the declared
\* edges of the phase graph; no phase change leaves Completed or Failed.
C1_DeclaredEdgesOnly ==
    [][status'.phase # status.phase => <<status.phase, status'.phase>> \in DeclaredEdges]_vars

\* C2: in every persisted state readyForAttach = true implies that
\* oneTimeToken is non-empty and the phase is Active.
C2_ReadyImpliesTokenAndActive ==
    status.readyForAttach => (status.oneTimeToken # NoToken /\ status.phase = Active)

\* the bearer token a request presents, NoToken - 1 standing for "none"
presentedToken(req) == IF Len(req.auth) = 2 THEN req.auth[2] ELSE NoToken - 1

\* C3: the proxy upgrades a request only if the session is ready for attach,
\* the presented bearer token equals its oneTimeToken and the container
\* argument, stripped of the prefix debugger-, is the session's UID; a
\* request with another token is rejected whatever its container name.
C3_UpgradeOnlyIfAuthorized ==
    \A req \in Requests, listOk \in BOOLEAN :
        Response(req, listOk) = "upgraded" =>
            /\ status.readyForAttach
            /\ presentedToken(req) = status.oneTimeToken
            /\ TrimPrefix(req.container, "debugger-") = <<UID>>

C3_Witness == attach.code = "upgraded" /\ status.readyForAttach /\ status.phase = Active

\* C4: in every persisted state retryCount <= spec.maxRetryCount, for every
\* admissible maxRetryCount including 0.
C4_RetryCountBounded == status.retryCount <= spec.maxRetryCount

\* C5: reconciling a session whose phase is Completed or Failed leaves the
\* persisted status and the target pod unchanged.
C5_TerminalFixedPoint ==
    [][(status.phase \in {Completed, Failed} /\ (CompletedReconcile \/ FailedReconcile))
          => (status' = status /\ pod' = pod)]_vars

\* the number of entries of the pod's ephemeralContainers named name
countNamed(list, name) == Cardinality({i \in 1..Len(list) : list[i] = name})

\* C6: the pod's spec.ephemeralContainers holds at most one entry named
\* debugger-<UID>, also when Injecting runs more than once.
C6_AtMostOneDebugger == countNamed(pod.ephemeralContainers, DebuggerName(UID)) <= 1

\* C7: once Terminating has cleaned up a session (it is Completed), the
\* pod's ephemeral-container list equals the list before Injecting.
C7_RoundTrip ==
    (status.phase = Completed /\ pod.exists) => pod.ephemeralContainers = origEphemeral

\* the entries of list that are not named name, in their order
RECURSIVE others(_, _)
others(list, name) ==
    IF list = <<>> THEN <<>>
    ELSE IF Head(list) = name THEN others(Tail(list), name)
         ELSE <<Head(list)>> \o others(Tail(list), name)

\* C8: a successful Terminating reconcile of a session whose pod lists
\* debugger-<UID> ends with that entry gone and the other entries kept in
\* order, phase Completed, terminationTime set and the message "Termination
\* Completed"; hence the pod of a Completed session has no such entry.
C8_CleanupRemovesDebugger ==
    /\ [][(/\ status.phase = Terminating
           /\ pod.exists
           /\ isEphemeralContainerPresent(pod, DebuggerName(UID))
           /\ TerminatingReconcile
           /\ status'.phase = Completed)
          => (/\ ~isEphemeralContainerPresent(pod', DebuggerName(UID))
              /\ pod'.ephemeralContainers = others(pod.ephemeralContainers, DebuggerName(UID))
              /\ status'.terminationTime
              /\ status'.message = Msg("Termination Completed"))]_vars
    /\ []((status.phase = Completed /\ pod.exists)
            => ~isEphemeralContainerPresent(pod, DebuggerName(UID)))

\* C9: status.oneTimeToken is assigned at most once: once it is non-empty
\* it never changes.
C9_TokenAssignedOnce ==
    [][status.oneTimeToken # NoToken => status'.oneTimeToken = status.oneTimeToken]_vars

\* C10: a token authorizes one attach: a request presenting a token that
\* an upgraded request has already presented is not upgraded.
C10_TokenOneTime ==
    \A req \in Requests, listOk \in BOOLEAN :
        presentedToken(req) \in upgraded => Response(req, listOk) # "upgraded"

\* the phases that precede Active
BeforeActive == {"", Pending, Injecting}

\* C11: phase changes are monotone: a session whose persisted phase is
\* Active or later never returns to "", Pending or Injecting, so no reader
\* that has seen Active later sees a phase that precedes it.
C11_NoReturnBeforeActive ==
    [][status.phase \notin BeforeActive => status'.phase \notin BeforeActive]_vars

\* a session that went through Active and Retrying and is Active again
C11_Witness == status.phase = Active /\ status.message = Msg("Session is now active.")

\* C12: a non-empty persisted debuggingContainerName equals debugger-<UID>,
\* and once it is non-empty no reconcile changes or clears it.
C12_ContainerNameStable ==
    /\ [](status.debuggingContainerName # <<>>
            => status.debuggingContainerName = DebuggerName(UID))
    /\ [][status.debuggingContainerName # <<>>
            => status'.debuggingContainerName = status.debuggingContainerName]_vars

\* the name is recorded and the session has been reconciled on into Retrying
C12_Witness == status.debuggingContainerName = DebuggerName(UID) /\ status.phase = Retrying

\* C13: no half-state of a phase change is persisted: a session whose
\* persisted phase is Injecting has neither oneTimeToken nor
\* debuggingContainerName set, the change to Active writing them all at once.
C13_NoHalfState ==
    status.phase = Injecting
        => (status.oneTimeToken = NoToken /\ status.debuggingContainerName = <<>>)

\* C14: in every state, also between a change of the debugger container's
\* sub-state and the next reconcile, readyForAttach = true implies that the
\* container debugger-<UID> is Running.
C14_ReadyImpliesRunning == status.readyForAttach => cstate.kind = "Running"

\* the mapping table of sub-state and reason to action
MappingTable(cs) ==
    CASE cs.kind = "Running" -> ActionWait
      [] cs.kind = "Waiting" /\ cs.reason = "ContainerCreating" -> ActionWait
      [] cs.kind = "Waiting" /\ cs.reason \in {"ImagePullBackOff", "RegistryUnavailable",
             "CrashLoopBackOff", "CreateContainerError", "RunContainerError",
             "NetworkPluginNotReady"} -> ActionRetry
      [] cs.kind = "Waiting" -> ActionFail
      [] cs.kind = "Terminated" /\ cs.reason = "Completed" -> ActionSucceed
      [] cs.kind = "Terminated" -> ActionFail
      [] OTHER -> ActionWait

\* C15: AnalyzeContainerStatus returns the action of the mapping table for
\* every observation, unknown reasons giving Fail and no sub-state Wait; the
\* action depends on the observation only.
C15_ClassifierMatchesTable ==
    analysis.called => analysis.action = MappingTable(analysis.status)

\* a Waiting container with a reason of neither map has been classified
C15_Witness ==
    /\ analysis.called
    /\ analysis.status = ContainerStatus("Waiting", "PodInitializing")
    /\ analysis.action = ActionFail

\* the answer the order of checks prescribes for a request
ExpectedAnswer(req, listOk) ==
    CASE req.path # "/attach" -> "200"
      [] req.ns = "" \/ req.pod = "" \/ req.container = <<>> -> "400"
      [] ~(Len(req.auth) = 2 /\ EqualFoldBearer(req.auth[1])) -> "401"
      [] ~listOk -> "500"
      [] TrimPrefix(req.container, "debugger-") # <<UID>> -> "404"
      [] ~status.readyForAttach \/ status.oneTimeToken # req.auth[2] -> "401"
      [] OTHER -> "upgraded"

\* C16: the proxy answers with the first failing check in the order 400
\* (missing parameter), 401 (header), 500 (list), 404 (session), 401 (not
\* ready or token), else upgrades; any path other than /attach gets 200.
C16_StatusCodes ==
    /\ \A req \in Requests, listOk \in BOOLEAN :
         req.path = "/attach" => DefaultServeMux(req, listOk) = ExpectedAnswer(req, listOk)
    /\ attach.path \notin {"", "/attach"} => attach.code = "200"

\* C17: the proxy upgrades a request only when its container parameter is
\* exactly debugger-<UID>; a value without the prefix, such as the bare
\* UID, is never accepted, whatever the token.
C17_ExactContainerName ==
    \A req \in Requests, listOk \in BOOLEAN :
        DefaultServeMux(req, listOk) = "upgraded" => req.container = DebuggerName(UID)

\* C18: with a container that stays Retry-classified the session enters
\* Retrying with retryCount = 1 and a requeue of 5s, the next observation
\* makes retryCount 2 with a requeue of 10s, no increment passes
\* maxRetryCount, and the session is Failed with "Failed after max retries."
\* only with its retries used up.
C18_RetrySchedule ==
    /\ [][(status.phase = Active /\ status'.phase = Retrying)
            => (status'.retryCount = 1 /\ result'.requeueAfter = 5)]_vars
    /\ [][(status.phase = Retrying /\ status'.retryCount = 2 /\ status.retryCount = 1)
            => (status'.phase = Retrying /\ result'.requeueAfter = 10)]_vars
    /\ [][(status.phase = Retrying /\ status'.retryCount > status.retryCount)
            => status'.retryCount <= spec.maxRetryCount]_vars
    /\ [](status.message = Msg("Failed after max retries.")
            => (status.phase = Failed /\ status.retryCount >= spec.maxRetryCount))

\* min(60s, 5s * 2^(r-1)) in seconds, computed on the integers
IdealDelay(r) == IF r >= 5 THEN 60 ELSE 5 * Pow2(r - 1)

\* C19: when the Retrying reconciler has incremented retryCount to r, the
\* requeue delay it returns is min(60s, 5s * 2^(r-1)), at least 5s and at
\* most 60s, for every r up to maxRetryCount.
C19_BackoffDelay ==
    (result.op = "Retrying" /\ ~result.err /\ status.phase = Retrying)
        => /\ result.requeueAfter = IdealDelay(status.retryCount)
           /\ result.requeueAfter >= 5
           /\ result.requeueAfter <= 60

\* C20: while the phase stays Retrying the persisted retryCount never
\* decreases, and the write that moves a session from Retrying back to
\* Active sets retryCount to 0.
C20_RetryCountStreak ==
    /\ [][(status.phase = Retrying /\ status'.phase = Retrying)
            => status'.retryCount >= status.retryCount]_vars
    /\ [][(status.phase = Retrying /\ status'.phase = Active)
            => status'.retryCount = 0]_vars

\* the Retrying reconciler has just moved the session back to Active
C20_Witness == status.phase = Active /\ result.op = "Retrying" /\ status.retryCount = 0

\* the target container the Pending checks look for, after defaulting
PendingTargetPresent ==
    /\ ~(spec.targetContainerName = "" /\ Len(pod.containers) = 0)
    /\ findContainerInPod(pod, IF spec.targetContainerName = ""
                                THEN pod.containers[1] ELSE spec.targetContainerName)

\* a precondition of Pending fails for good
PendingMustFail ==
    \/ ~nsExists
    \/ ~pod.exists
    \/ pod.phase \in {"Succeeded", "Failed"}
    \/ pod.phase = "Running" /\ ~PendingTargetPresent

C22_PendingRequeues ==
    [][(status.phase = Pending /\ PendingReconcile
          /\ nsExists /\ pod.exists /\ pod.phase = "Pending")
        => (status'.phase = Pending /\ result'.requeueAfter = 30)]_vars

\* the preconditions of an injection: namespace and pod exist, the pod runs
\* and shares its process namespace, the target container is there
Happy ==
    /\ nsExists /\ pod.exists /\ pod.phase = "Running" /\ pod.shareProcessNamespace
    /\ PendingTargetPresent

ReadyState ==
    /\ status.phase = Active
    /\ status.readyForAttach
    /\ status.debuggingContainerName = DebuggerName(UID)
    /\ status.oneTimeToken # NoToken
    /\ status.message.fmt = "Session is ready. Open TWO terminals and follow the steps: ..."
    /\ status.message.tok = status.oneTimeToken

HappyEdges == {<<"", Pending>>, <<Pending, Injecting>>, <<Injecting, Active>>}

\* C23: when namespace and pod exist, the pod is Running and shares its
\* process namespace, no call fails and the debugger container starts and
\* keeps running, the phase moves only along "" -> Pending -> Injecting ->
\* Active and the session eventually is Active, ready for attach, with the
\* container name debugger-<UID>, a token and the "Session is ready" message
\* that carries this token.
C23_HappyPath ==
    /\ [][(Happy /\ cstate.kind # "Terminated" /\ status'.phase # status.phase)
            => <<status.phase, status'.phase>> \in HappyEdges]_vars
    /\ [](cstate.kind # "Terminated") => (Happy ~> ReadyState)

C23_Witness == Happy /\ ReadyState /\ cstate.kind = "Running"

\* the messages that only a failed read or update of the target pod or of
\* the session produces
TransientErrorMessage(m) ==
    \/ m \in {Msg("<namespace get error>"), Msg("<pod get error>"),
               Msg("Setup Failed: %v"), Msg("<status update error>")}
    \/ m.reason \in {"failed to update ephemeral containers",
                      "failed to update session status with debugging container name",
                      "failed to get target pod for cleanup",
                      "failed to update ephemeral containers to remove debugger",
                      "failed to get target pod"}

\* C24: no reconcile moves the session to Failed with a message that comes
\* from a failed read or update of the pod or the session, and none reports
\* a pod that exists as not found.
C24_TransientNotSurfaced ==
    [][(status'.phase = Failed /\ status.phase # Failed)
        => /\ ~TransientErrorMessage(status'.message)
           /\ pod.exists => status'.message \notin {Msg("Failed to find Target Pod"),
                                                    Msg("Target pod not found during retry.")}]_vars

\* C25: the bytes written to stdin for a client frame are 0x00 followed by
\* the frame's payload, and the frame sent for a chunk of output is the
\* chunk without its first byte.
C25_Framing ==
    /\ conn.payload # None => conn.stdin = <<0>> \o conn.payload
    /\ conn.chunk # None => conn.frame = Tail(conn.chunk)

TasksDone ==
    /\ conn.reader \in {"none", "done"}
    /\ conn.pinger \in {"none", "done"}
    /\ conn.copier \in {"none", "done"}

\* C29: once the attach stream has ended, the terminal-size queue gets
\* closed, no call of Next stays blocked and every task of the connection
\* terminates.
C29_StreamEndReleasesTasks ==
    conn.ended ~> (conn.queue.closed /\ conn.next # "blocked" /\ TasksDone)

\* C26: while the pod exists, a step changes its list of ephemeral
\* containers only if it is a reconcile of an Injecting session, and then
\* the new list is the old one with debugger-<UID> appended, or a reconcile
\* of a Terminating session, and then the new list is the old one without
\* its (first) entry debugger-<UID>.  Reconciles in other phases, the
\* kubelet and the proxy leave the list as it is.
C26_EphemeralFrame ==
    [][(pod'.exists /\ pod'.ephemeralContainers # pod.ephemeralContainers)
        => \/ /\ status.phase = Injecting
              /\ pod'.ephemeralContainers = Append(pod.ephemeralContainers, DebuggerName(UID))
           \/ /\ status.phase = Terminating
              /\ foundIndex(pod.ephemeralContainers, DebuggerName(UID)) > 0
              /\ pod'.ephemeralContainers =
                     removeAt(pod.ephemeralContainers,
                              foundIndex(pod.ephemeralContainers, DebuggerName(UID)))]_vars

\* the debugger was appended and later removed again
C26_Witness ==
    /\ status.phase = Completed /\ pod.exists
    /\ pod.ephemeralContainers = origEphemeral
    /\ attach.code = "upgraded"

\* C27: a reconcile that starts from an outdated copy of the session
\* changes neither the persisted status nor the target pod.
C27_StaleChangesNothing ==
    [][StaleReconcile => (status' = status /\ pod' = pod)]_vars

\* an Active session whose debugger container has terminated with Completed
ActiveAndExited ==
    /\ status.phase = Active /\ pod.exists
    /\ cstate = ContainerStatus("Terminated", "Completed")

CompletedAndRemoved ==
    /\ status.phase = Completed
    /\ ~isEphemeralContainerPresent(pod, DebuggerName(UID))

\* C28: when the debugger container of an Active session has terminated
\* with Completed and calls succeed, the session leaves Active only for
\* Terminating with readyForAttach = false, it eventually is Completed with
\* the debugger container removed from the pod, and a Completed session
\* stays Completed.
C28_CompletionPath ==
    /\ [][(ActiveAndExited /\ status'.phase # Active)
            => (status'.phase = Terminating /\ ~status'.readyForAttach)]_vars
    /\ ActiveAndExited ~> CompletedAndRemoved
    /\ [][status.phase = Completed => status'.phase = Completed]_vars

\* C30: an Injecting reconcile on a pod whose shareProcessNamespace is not
\* true appends nothing to the pod's ephemeral containers, leaves the
\* persisted oneTimeToken as it was and, its status write succeeding,
\* moves the session to Failed.
C30_ShareProcessNamespaceRequired ==
    [][(status.phase = Injecting /\ InjectingReconcile /\ pod.exists /\ ~pod.shareProcessNamespace)
        => /\ pod' = pod
           /\ status'.oneTimeToken = status.oneTimeToken
           /\ status'.phase \in {Injecting, Failed}
           /\ ~result'.err => status'.phase = Failed]_vars

C30_Witness ==
    /\ status.phase = Failed
    /\ status.message = MsgReason("Inject Failed: %v", "pod.Spec.ShareProcessNamespace is false")
    /\ status.oneTimeToken = NoToken
    /\ pod.exists /\ pod.ephemeralContainers = origEphemeral

C33_RetryingResolution ==
    [][(status.phase = Retrying /\ RetryingReconcile)
        => /\ pod' = pod
           /\ result'.err
                => \/ status' = status
                   \/ MappingTable(cstate) = ActionRetry /\ pod.exists /\ cstate.kind # "absent"
           /\ (~result'.err /\ pod.exists /\ cstate.kind # "absent"
                  /\ MappingTable(cstate) \in {ActionWait, ActionSucceed})
                => \/ status'.phase = Active /\ status'.retryCount = 0
                   \/ status' = [status EXCEPT !.phase = Failed,
                                               !.message = Msg("Target pod not found during retry.")]
           /\ (~result'.err /\ pod.exists /\ cstate.kind # "absent"
                  /\ MappingTable(cstate) = ActionFail)
                => /\ status'.phase = Failed
                   /\ status'.message.reason = cstate.reason
                       \/ status'.message = Msg("Target pod not found during retry.")
           /\ (~result'.err /\ (~pod.exists \/ cstate.kind = "absent"))
                => status'.phase = Failed]_vars

C33_Witness ==
    /\ status.phase = Active /\ status.retryCount = 0
    /\ status.message = Msg("Session is now active.")
    /\ cstate = ContainerStatus("Terminated", "Completed")

DeclaredPhases == {"", "Pending", "Injecting", "Active", "Retrying", "Terminating", "Completed", "Failed"}

\* C35: a request for a deleted session is answered without a write and
\* without a requeue, a session with an unregistered phase without a write
\* and with a requeue after 30 s; every declared phase has a reconciler,
\* "" and Pending the same one, so a session in a declared phase is never
\* answered by the dispatcher itself.
C35_Dispatcher ==
    /\ [][DispatchOnly
            => /\ status' = status /\ pod' = pod
               /\ status.phase \notin DeclaredPhases
               /\ result'.requeueAfter = IF status = DeletedSession THEN 0 ELSE 30
               /\ ~result'.err]_vars
    /\ [](/\ DeclaredPhases \subseteq DOMAIN reconcilerRegistry
          /\ reconcilerRegistry[""] = reconcilerRegistry["Pending"]
          /\ status.phase \in DeclaredPhases => Dispatch(status).reconciler # "")

C35_Witness == result = Result("Dispatcher", 30, FALSE) /\ status.phase = UnregisteredPhase

\* the sessions that target the pod of the last event
TargetingSessions ==
    {x \in fanout.sessions :
        /\ (IF x.targetNamespace = "" THEN x.namespace ELSE x.targetNamespace) = fanout.podNamespace
        /\ x.targetPodName = fanout.podName}

EphemeralNames(p) == {p.ephemeralContainers[i] : i \in 1..Len(p.ephemeralContainers)}

\* C37: while the session and a peer work on the same pod, a pod update of
\* one never takes the other's debugger container out of the pod's list, and
\* the peer's reconcile is not ended in Failed because the session's pod
\* update came between the peer's read of the pod and its own update.
C37_NoInterference ==
    [][pod.exists /\ pod'.exists
        => /\ PeerUpdatePod
              => /\ DebuggerName(UID) \in EphemeralNames(pod)
                    => DebuggerName(UID) \in EphemeralNames(pod')
                 /\ peer'.phase # Failed
           /\ ~PeerUpdatePod
              => (DebuggerName(PeerUID) \in EphemeralNames(pod)
                    => DebuggerName(PeerUID) \in EphemeralNames(pod'))]_vars

\* C38: at every state of the session, the answer to an /attach request
\* with non-empty ns and pod is the answer to the request with the same
\* container and Authorization header that names the session's target
\* namespace and pod: requests that differ only in ns and pod are answered
\* alike, whether or not they name the target.
C38_DecisionIgnoresTarget ==
    \A c \in Containers, a \in BearerHeaders \cup MalformedHeaders, listOk \in BOOLEAN :
        LET decision == Response(Request("/attach", "app", "web-1", c, a), listOk)
        IN  \A ns \in NsValues, p \in PodValues :
                Response(Request("/attach", ns, p, c, a), listOk) = decision

\* an attach that names another namespace and pod than the target's is upgraded
C38_Witness ==
    /\ attach.code = "upgraded" /\ attach.path = "/attach"
    /\ attach.ns = "other" /\ attach.pod = "web-2"

\* C39: a reconcile that moves the session from Injecting to Failed leaves
\* the pod's list of ephemeral containers as it was when the reconcile began.
C39_FailedInjectionLeavesPod ==
    [][(status.phase = Injecting /\ status'.phase = Failed)
        => pod'.ephemeralContainers = pod.ephemeralContainers]_vars

====
